---- MODULE Spec2Model ----
(***************************************************************************)
(* Merkle root recomputation from a page cache and a multiproof            *)
(* (src/proof/{types,page_cache,multiproof,merkle_proof}.rs).              *)
(*                                                                         *)
(* Hashes are modelled as terms of a free algebra written as flat          *)
(* sequences of naturals: Keccak-256 is taken to be injective and without  *)
(* relations between the page hash and the merge of two hashes.            *)
(*   page hash         <<0, data>>                                         *)
(*   merge_hashes(l,r) <<1>> \o l \o r                                     *)
(*   foreign hash      <<2, k>>   (a value no honest derivation yields)    *)
(* Option<ProofHash>::None is the empty sequence.                          *)
(***************************************************************************)
EXTENDS Integers, Sequences, FiniteSets, TLC

VARIABLES
    mem,            \* the memory the prover committed to: leaf index -> page data
    in_pages,       \* the Vec<Page> handed to PageCache::new
    in_hashes,      \* the Multiproof.hashes handed to MerkleProof::new
    pages,          \* PageCache.pages
    hashes,         \* Multiproof.hashes
    tree,           \* MerkleProof.tree (index i of the code is tree[i+1])
    pc,             \* position in calculate_root
    page_address,   \* local of init
    entry_size,     \* local of bubble_up
    r,              \* read index of bubble_up
    w,              \* write index of bubble_up
    result,         \* what calculate_root returned
    ops,            \* the has_next/get_next calls made by the last step
    levels,         \* number of bubble_up calls completed
    got             \* what a caller of get_next alone was handed, call by call

vars == <<mem, in_pages, in_hashes, pages, hashes, tree, pc, page_address,
          entry_size, r, w, result, ops, levels, got>>

----------------------------------------------------------------------------
(* types.rs *)

MEMORY_LOG2_SIZE == 5
PAGE_LOG2_SIZE == 2

RECURSIVE Pow2(_)
Pow2(n) == IF n = 0 THEN 1 ELSE 2 * Pow2(n - 1)

\* x >> 1 on usize
Shr1(x) == x \div 2

RegionSize == Pow2(MEMORY_LOG2_SIZE)
PageSize == Pow2(PAGE_LOG2_SIZE)
LeafCount == Pow2(MEMORY_LOG2_SIZE - PAGE_LOG2_SIZE)
TreeDepth == MEMORY_LOG2_SIZE - PAGE_LOG2_SIZE
Leaves == 0 .. (LeafCount - 1)

----------------------------------------------------------------------------
(* hashes *)

None == <<>>

\* Page::hash
PageHash(page) == <<0, page.data>>

\* the higher-address child hashed first
merge_hashes_swapped(left, right) == <<1>> \o right \o left

\* MerkleProof::merge_hashes
merge_hashes(left, right) == <<1>> \o left \o right

----------------------------------------------------------------------------
(* page_cache.rs *)

\* place of s[j] after the stable sort by descending address: in front of it
\* come the pages of a higher address and the earlier pages of the same address
RankDesc(s, j) ==
    Cardinality({ k \in 1 .. Len(s) :
                    \/ s[k].address > s[j].address
                    \/ s[k].address = s[j].address /\ k < j })

\* pages.sort_by(|a, b| a.address.cmp(&b.address).reverse())
SortDesc(s) ==
    [i \in 1 .. Len(s) |-> s[CHOOSE j \in 1 .. Len(s) : RankDesc(s, j) = i - 1]]

\* the sort left out
PageCache_new_unsorted(ps) == ps

\* the comparison not reversed: the pages sorted by ascending address
PageCache_new_ascending(ps) ==
    [i \in 1 .. Len(ps) |-> SortDesc(ps)[Len(ps) + 1 - i]]

\* PageCache::new
PageCache_new(ps) == SortDesc(ps)

\* map_or(true, ..): an empty cache answers true
PageCache_has_next_or_empty(ps, address) ==
    Len(ps) = 0 \/ ps[Len(ps)].address = address

\* PageCache::has_next
PageCache_has_next(ps, address) ==
    Len(ps) > 0 /\ ps[Len(ps)].address = address

\* Vec::pop: the value returned (<<>> for Option::None, <<x>> for Some(x))
PopRet(s) == IF Len(s) = 0 THEN <<>> ELSE <<s[Len(s)]>>

\* Vec::pop: the vector left
PopRest(s) == IF Len(s) = 0 THEN s ELSE SubSeq(s, 1, Len(s) - 1)

\* the page handed out but left in the cache
PageCache_get_next_peek(ps) == [ret |-> PopRet(ps), rest |-> ps]

\* PageCache::get_next
PageCache_get_next(ps) == [ret |-> PopRet(ps), rest |-> PopRest(ps)]

----------------------------------------------------------------------------
(* multiproof.rs *)

\* the first entry of the vector examined, not the last
Multiproof_has_next_first(hs, address_low, address_high) ==
    Len(hs) > 0 /\ hs[1].address_low = address_low
                /\ hs[1].address_high = address_high

\* only the lower bound compared
Multiproof_has_next_low(hs, address_low, address_high) ==
    Len(hs) > 0 /\ hs[Len(hs)].address_low = address_low

\* only the upper bound compared
Multiproof_has_next_high(hs, address_low, address_high) ==
    Len(hs) > 0 /\ hs[Len(hs)].address_high = address_high

\* Multiproof::has_next
Multiproof_has_next(hs, address_low, address_high) ==
    Len(hs) > 0 /\ hs[Len(hs)].address_low = address_low
                /\ hs[Len(hs)].address_high = address_high

\* the entry taken from the front of the vector
Multiproof_get_next_front(hs) ==
    [ret |-> IF Len(hs) = 0 THEN <<>> ELSE <<hs[1]>>,
     rest |-> IF Len(hs) = 0 THEN hs ELSE Tail(hs)]

\* Multiproof::get_next
Multiproof_get_next(hs) == [ret |-> PopRet(hs), rest |-> PopRest(hs)]

----------------------------------------------------------------------------
(* merkle_proof.rs *)

\* a call of has_next or get_next: its source, whether it returned true (or
\* Some), and the range asked for (or of the element returned, -1 for none)
Op(src, op, ok, low, high) ==
    [src |-> src, op |-> op, ok |-> ok, low |-> low, high |-> high]

\* Option::unwrap panics on None
UnwrapPanics(opt) == opt = <<>>

CacheHas(ps, address) ==
    Op("cache", "has_next", PageCache_has_next(ps, address), address, address)

CacheGet(ps) ==
    LET g == PageCache_get_next(ps) IN
    IF g.ret = <<>> THEN Op("cache", "get_next", FALSE, -1, -1)
    ELSE Op("cache", "get_next", TRUE, g.ret[1].address, g.ret[1].address)

ProofHas(hs, low, high) ==
    Op("multiproof", "has_next", Multiproof_has_next(hs, low, high), low, high)

ProofGet(hs) ==
    LET g == Multiproof_get_next(hs) IN
    IF g.ret = <<>> THEN Op("multiproof", "get_next", FALSE, -1, -1)
    ELSE Op("multiproof", "get_next", TRUE, g.ret[1].address_low, g.ret[1].address_high)

\* the multiproof asked before the cache
InitBranch_proof_first(ps, hs, address) ==
    IF Multiproof_has_next(hs, address, address)
    THEN LET g == Multiproof_get_next(hs) IN
         [panic  |-> UnwrapPanics(g.ret),
          slot   |-> IF UnwrapPanics(g.ret) THEN None ELSE g.ret[1].hash,
          pages  |-> ps,
          hashes |-> g.rest,
          ops    |-> <<ProofHas(hs, address, address), ProofGet(hs)>>]
    ELSE IF PageCache_has_next(ps, address)
    THEN LET g == PageCache_get_next(ps) IN
         [panic  |-> UnwrapPanics(g.ret),
          slot   |-> IF UnwrapPanics(g.ret) THEN None ELSE PageHash(g.ret[1]),
          pages  |-> g.rest,
          hashes |-> hs,
          ops    |-> <<ProofHas(hs, address, address), CacheHas(ps, address),
                       CacheGet(ps)>>]
    ELSE [panic  |-> FALSE,
          slot   |-> None,
          pages  |-> ps,
          hashes |-> hs,
          ops    |-> <<ProofHas(hs, address, address), CacheHas(ps, address)>>]

\* one iteration of the while loop of MerkleProof::init: the slot pushed, what
\* is left of both sources, the calls made, and whether an unwrap panicked
InitBranch(ps, hs, address) ==
    IF PageCache_has_next(ps, address)
    THEN LET g == PageCache_get_next(ps) IN
         [panic  |-> UnwrapPanics(g.ret),
          slot   |-> IF UnwrapPanics(g.ret) THEN None ELSE PageHash(g.ret[1]),
          pages  |-> g.rest,
          hashes |-> hs,
          ops    |-> <<CacheHas(ps, address), CacheGet(ps)>>]
    ELSE IF Multiproof_has_next(hs, address, address)
    THEN LET g == Multiproof_get_next(hs) IN
         [panic  |-> UnwrapPanics(g.ret),
          slot   |-> IF UnwrapPanics(g.ret) THEN None ELSE g.ret[1].hash,
          pages  |-> ps,
          hashes |-> g.rest,
          ops    |-> <<CacheHas(ps, address), ProofHas(hs, address, address),
                       ProofGet(hs)>>]
    ELSE [panic  |-> FALSE,
          slot   |-> None,
          pages  |-> ps,
          hashes |-> hs,
          ops    |-> <<CacheHas(ps, address), ProofHas(hs, address, address)>>]

\* (w * entry_size) as u64
ParentLow(wr, es) == wr * es

\* the upper bound taken exclusive
ParentHigh_exclusive(wr, es) == wr * es + es

\* (w * entry_size + entry_size - 1) as u64
ParentHigh(wr, es) == wr * es + es - 1

\* the multiproof is asked only when both children are unknown
BubblePair_both_none(t, hs, rd, wr, es) ==
    LET left == t[rd + 1]
        right == t[rd + 2]
        low == ParentLow(wr, es)
        high == ParentHigh(wr, es)
    IN  IF left = None /\ right = None
        THEN IF Multiproof_has_next(hs, low, high)
             THEN LET g == Multiproof_get_next(hs) IN
                  [panic  |-> UnwrapPanics(g.ret),
                   slot   |-> IF UnwrapPanics(g.ret) THEN None ELSE g.ret[1].hash,
                   hashes |-> g.rest,
                   ops    |-> <<ProofHas(hs, low, high), ProofGet(hs)>>]
             ELSE [panic  |-> FALSE,
                   slot   |-> None,
                   hashes |-> hs,
                   ops    |-> <<ProofHas(hs, low, high)>>]
        ELSE IF left = None \/ right = None
        THEN [panic  |-> FALSE,
              slot   |-> None,
              hashes |-> hs,
              ops    |-> <<>>]
        ELSE [panic  |-> FALSE,
              slot   |-> merge_hashes(left, right),
              hashes |-> hs,
              ops    |-> <<>>]

\* an entry that does not match is dropped from the multiproof
BubblePair_drop(t, hs, rd, wr, es) ==
    LET left == t[rd + 1]
        right == t[rd + 2]
        low == ParentLow(wr, es)
        high == ParentHigh(wr, es)
    IN  IF left = None \/ right = None
        THEN IF Multiproof_has_next(hs, low, high)
             THEN LET g == Multiproof_get_next(hs) IN
                  [panic  |-> UnwrapPanics(g.ret),
                   slot   |-> IF UnwrapPanics(g.ret) THEN None ELSE g.ret[1].hash,
                   hashes |-> g.rest,
                   ops    |-> <<ProofHas(hs, low, high), ProofGet(hs)>>]
             ELSE [panic  |-> FALSE,
                   slot   |-> None,
                   hashes |-> PopRest(hs),
                   ops    |-> <<ProofHas(hs, low, high)>>]
        ELSE [panic  |-> FALSE,
              slot   |-> merge_hashes(left, right),
              hashes |-> hs,
              ops    |-> <<>>]

\* with no matching entry the parent keeps the child that is known
BubblePair_keep(t, hs, rd, wr, es) ==
    LET left == t[rd + 1]
        right == t[rd + 2]
        low == ParentLow(wr, es)
        high == ParentHigh(wr, es)
    IN  IF left = None \/ right = None
        THEN IF Multiproof_has_next(hs, low, high)
             THEN LET g == Multiproof_get_next(hs) IN
                  [panic  |-> UnwrapPanics(g.ret),
                   slot   |-> IF UnwrapPanics(g.ret) THEN None ELSE g.ret[1].hash,
                   hashes |-> g.rest,
                   ops    |-> <<ProofHas(hs, low, high), ProofGet(hs)>>]
             ELSE [panic  |-> FALSE,
                   slot   |-> IF left # None THEN left ELSE right,
                   hashes |-> hs,
                   ops    |-> <<ProofHas(hs, low, high)>>]
        ELSE [panic  |-> FALSE,
              slot   |-> merge_hashes(left, right),
              hashes |-> hs,
              ops    |-> <<>>]

\* one iteration of the for loop of MerkleProof::bubble_up on the pair read at
\* rd, rd + 1 and written at wr (indices of the code, from 0)
BubblePair(t, hs, rd, wr, es) ==
    LET left == t[rd + 1]
        right == t[rd + 2]
        low == ParentLow(wr, es)
        high == ParentHigh(wr, es)
    IN  IF left = None \/ right = None
        THEN IF Multiproof_has_next(hs, low, high)
             THEN LET g == Multiproof_get_next(hs) IN
                  [panic  |-> UnwrapPanics(g.ret),
                   slot   |-> IF UnwrapPanics(g.ret) THEN None ELSE g.ret[1].hash,
                   hashes |-> g.rest,
                   ops    |-> <<ProofHas(hs, low, high), ProofGet(hs)>>]
             ELSE [panic  |-> FALSE,
                   slot   |-> None,
                   hashes |-> hs,
                   ops    |-> <<ProofHas(hs, low, high)>>]
        ELSE [panic  |-> FALSE,
              slot   |-> merge_hashes(left, right),
              hashes |-> hs,
              ops    |-> <<>>]

\* one slot too many kept
Truncate_long(t) == SubSeq(t, 1, Shr1(Len(t)) + 1)

\* self.tree.truncate(self.tree.len() >> 1)
Truncate(t) == SubSeq(t, 1, Shr1(Len(t)))

\* an index of tree the code reads or writes that is outside the vector
OutOfBounds(t, rd, wr) == rd + 1 >= Len(t) \/ wr >= Len(t)

NoResult == [kind |-> "None", hash |-> None]
Ok(h) == [kind |-> "Ok", hash |-> h]
Err == [kind |-> "Err", hash |-> None]

\* PageCache::new and MerkleProof::new, as the caller runs them
New ==
    /\ pc = "new"
    /\ pages' = PageCache_new(in_pages)
    /\ hashes' = in_hashes
    /\ tree' = <<>>
    /\ pc' = "ready"
    /\ UNCHANGED <<mem, in_pages, in_hashes, page_address, entry_size, r, w,
                   result, ops, levels, got>>

\* calculate_root is entered: init starts at page_address 0
CalculateRoot ==
    /\ pc = "ready"
    /\ page_address' = 0
    /\ pc' = IF 0 < RegionSize THEN "init" ELSE "loop"
    /\ ops' = <<>>
    /\ UNCHANGED <<mem, in_pages, in_hashes, pages, hashes, tree, entry_size,
                   r, w, result, levels, got>>

\* one iteration of the while loop of init
InitStep ==
    /\ pc = "init"
    /\ LET b == InitBranch(pages, hashes, page_address) IN
       /\ pages' = b.pages
       /\ hashes' = b.hashes
       /\ ops' = b.ops
       /\ IF b.panic
          THEN /\ pc' = "panic"
               /\ UNCHANGED <<tree, page_address>>
          ELSE /\ tree' = Append(tree, b.slot)
               /\ page_address' = page_address + PageSize
               /\ pc' = IF page_address + PageSize < RegionSize
                        THEN "init" ELSE "loop"
    /\ UNCHANGED <<mem, in_pages, in_hashes, entry_size, r, w, result, levels,
                   got>>

\* while self.tree.len() > 1: bubble_up is entered
BubbleUp ==
    /\ pc = "loop"
    /\ Len(tree) > 1
    /\ entry_size' = RegionSize \div Shr1(Len(tree))
    /\ r' = 0
    /\ w' = 0
    /\ ops' = <<>>
    /\ pc' = "bubble"
    /\ UNCHANGED <<mem, in_pages, in_hashes, pages, hashes, tree, page_address,
                   result, levels, got>>

\* one iteration of the for loop of bubble_up; the last one is followed by the
\* truncate that ends bubble_up
BubbleStep ==
    /\ pc = "bubble"
    /\ IF OutOfBounds(tree, r, w)
       THEN /\ pc' = "panic"
            /\ ops' = <<>>
            /\ UNCHANGED <<hashes, tree, r, w, levels>>
       ELSE LET b == BubblePair(tree, hashes, r, w, entry_size)
                t == [tree EXCEPT ![w + 1] = b.slot]
            IN  /\ hashes' = b.hashes
                /\ ops' = b.ops
                /\ IF b.panic
                   THEN /\ pc' = "panic"
                        /\ UNCHANGED <<tree, r, w, levels>>
                   ELSE IF r + 2 < Len(tree)
                   THEN /\ tree' = t
                        /\ r' = r + 2
                        /\ w' = w + 1
                        /\ pc' = "bubble"
                        /\ UNCHANGED levels
                   ELSE /\ tree' = Truncate(t)
                        /\ levels' = levels + 1
                        /\ pc' = "loop"
                        /\ UNCHANGED <<r, w>>
    /\ UNCHANGED <<mem, in_pages, in_hashes, pages, page_address, entry_size,
                   result, got>>

\* the loop of calculate_root is left: match self.tree[0]
Return ==
    /\ pc = "loop"
    /\ ~(Len(tree) > 1)
    /\ IF Len(tree) = 0
       THEN /\ pc' = "panic"
            /\ UNCHANGED result
       ELSE /\ result' = IF tree[1] # None THEN Ok(tree[1]) ELSE Err
            /\ pc' = "done"
    /\ ops' = <<>>
    /\ UNCHANGED <<mem, in_pages, in_hashes, pages, hashes, tree, page_address,
                   entry_size, r, w, levels, got>>

\* the tree emptied before the leaf build
CalculateRootAgain_cleared ==
    /\ pc = "done"
    /\ tree' = <<>>
    /\ page_address' = 0
    /\ pc' = IF 0 < RegionSize THEN "init" ELSE "loop"
    /\ ops' = <<>>
    /\ UNCHANGED <<mem, in_pages, in_hashes, pages, hashes, entry_size, r, w,
                   result, levels, got>>

\* calculate_root is entered on an instance it has returned from: init starts
\* at page_address 0 and pushes onto the tree as the earlier call left it
CalculateRootAgain ==
    /\ pc = "done"
    /\ page_address' = 0
    /\ pc' = IF 0 < RegionSize THEN "init" ELSE "loop"
    /\ ops' = <<>>
    /\ UNCHANGED <<mem, in_pages, in_hashes, pages, hashes, tree, entry_size,
                   r, w, result, levels, got>>

Next == New \/ CalculateRoot \/ InitStep \/ BubbleUp \/ BubbleStep \/ Return

----------------------------------------------------------------------------
(* the tree of the committed memory, and the inputs a caller builds from it *)

\* bytes spanned by a node of the given level (leaves are level 0)
NodeSpan(level) == PageSize * Pow2(level)

\* the range init asks the multiproof for at a leaf
LeafRange(idx) == <<idx * PageSize, idx * PageSize>>

\* the range bubble_up asks the multiproof for at a node above the leaves
ParentRange(level, idx) ==
    <<idx * NodeSpan(level), idx * NodeSpan(level) + NodeSpan(level) - 1>>

NodeRange(n) == IF n[1] = 0 THEN LeafRange(n[2]) ELSE ParentRange(n[1], n[2])

\* all nodes <<level, idx>> of the perfect tree over the region
Nodes == { <<l, i>> : l \in 0 .. TreeDepth, i \in Leaves } \cap
         UNION { { <<l, i>> : i \in 0 .. (Pow2(TreeDepth - l) - 1) } : l \in 0 .. TreeDepth }

\* the leaves below a node
LeavesOf(n) == { i \in Leaves : i \div Pow2(n[1]) = n[2] }

RECURSIVE TrueHash(_, _, _)
\* the hash of the subtree at <<level, idx>> of memory m: a leaf is the hash of
\* its page, an inner node the hash of its children, lower address first
TrueHash(m, level, idx) ==
    IF level = 0 THEN PageHash([address |-> idx * PageSize, data |-> m[idx]])
    ELSE merge_hashes(TrueHash(m, level - 1, 2 * idx),
                      TrueHash(m, level - 1, 2 * idx + 1))

Entry(low, high, h) == [address_low |-> low, address_high |-> high, hash |-> h]

\* the multiproof entry an honest prover gives for node n of memory m
TrueEntry(m, n) == Entry(NodeRange(n)[1], NodeRange(n)[2], TrueHash(m, n[1], n[2]))

\* the page of memory m at leaf idx
TruePage(m, idx) == [address |-> idx * PageSize, data |-> m[idx]]

\* position of a node in the scan: init visits the leaves by ascending address,
\* then each bubble_up visits one level by ascending address
ScanKey(n) == n[1] * LeafCount + n[2]

RECURSIVE ScanOrder(_)
\* the nodes of S in the order the scan visits them
ScanOrder(S) ==
    IF S = {} THEN <<>>
    ELSE LET first == CHOOSE n \in S : \A o \in S : ScanKey(n) <= ScanKey(o)
         IN  <<first>> \o ScanOrder(S \ {first})

Reverse(s) == [i \in 1 .. Len(s) |-> s[Len(s) + 1 - i]]

\* Multiproof.hashes for the nodes S: get_next pops from the end, so the vector
\* holds the entries in reverse scan order
HashesFor(m, S) == Reverse([i \in 1 .. Cardinality(S) |-> TrueEntry(m, ScanOrder(S)[i])])

RECURSIVE AscLeaves(_)
AscLeaves(S) ==
    IF S = {} THEN <<>>
    ELSE LET lo == CHOOSE i \in S : \A j \in S : i <= j
         IN  <<lo>> \o AscLeaves(S \ {lo})

\* the pages of the leaves S of memory m, by ascending address
PagesFor(m, S) == [i \in 1 .. Cardinality(S) |-> TruePage(m, AscLeaves(S)[i])]

RECURSIVE ExactCover(_, _)
\* every way to supply the subtree at <<level, idx>> with no gap and no excess:
\* one entry for the node, or (above the leaves) both children supplied, or (at
\* a leaf) the cached page
ExactCover(level, idx) ==
    { [cached |-> {}, nodes |-> { <<level, idx>> }] } \cup
    IF level = 0
    THEN { [cached |-> {idx}, nodes |-> {}] }
    ELSE { [cached |-> a.cached \cup b.cached, nodes |-> a.nodes \cup b.nodes] :
             a \in ExactCover(level - 1, 2 * idx),
             b \in ExactCover(level - 1, 2 * idx + 1) }

MaxData == 3

\* the committed memories: pattern d repeats the page data 1 .. d
Memories == { [i \in Leaves |-> 1 + (i % d)] : d \in 1 .. MaxData }

Swap(s, i, j) == [s EXCEPT ![i] = s[j], ![j] = s[i]]

\* orders in which a caller may hand the pages s to PageCache::new
Orders(s) == {s, Reverse(s)} \cup
             { Swap(s, i, j) : i \in 1 .. Len(s), j \in 1 .. Len(s) }

InitState(m, ps, hs) ==
    /\ mem = m
    /\ in_pages = ps
    /\ in_hashes = hs
    /\ pages = <<>>
    /\ hashes = <<>>
    /\ tree = <<>>
    /\ pc = "new"
    /\ page_address = 0
    /\ entry_size = 0
    /\ r = 0
    /\ w = 0
    /\ result = NoResult
    /\ ops = <<>>
    /\ levels = 0
    /\ got = <<>>

\* exact covers: the cache holds some leaves and the multiproof partitions the rest
InitExact ==
    \E m \in Memories, c \in ExactCover(TreeDepth, 0) :
        \E ps \in {PagesFor(m, c.cached), Reverse(PagesFor(m, c.cached))} :
            InitState(m, ps, HashesFor(m, c.nodes))

\* the whole memory cached, handed over in many orders
InitAllCache ==
    \E m \in Memories : \E ps \in Orders(PagesFor(m, Leaves)) :
        InitState(m, ps, <<>>)

Init == InitExact \/ InitAllCache

Spec == Init /\ [][Next]_vars

----------------------------------------------------------------------------
(* inputs within the data model that leave gaps or repeat data *)

\* the memory with the most distinct pages
RichMem == [i \in Leaves |-> 1 + (i % MaxData)]

RECURSIVE GapCover(_, _)
\* every way to supply part of the subtree at <<level, idx>> with no excess: as
\* ExactCover, but a leaf may also be left with no data at all
GapCover(level, idx) ==
    { [cached |-> {}, nodes |-> { <<level, idx>> }] } \cup
    IF level = 0
    THEN { [cached |-> {idx}, nodes |-> {}], [cached |-> {}, nodes |-> {}] }
    ELSE { [cached |-> a.cached \cup b.cached, nodes |-> a.nodes \cup b.nodes] :
             a \in GapCover(level - 1, 2 * idx),
             b \in GapCover(level - 1, 2 * idx + 1) }

MaxEntries == 2

Disjoint(a, b) == LeavesOf(a) \cap LeavesOf(b) = {}

RECURSIVE NodeSets(_)
\* the sets of at most k nodes with pairwise disjoint ranges
NodeSets(k) ==
    IF k = 0 THEN { {} }
    ELSE NodeSets(k - 1) \cup
         UNION { { A \cup {n} : n \in { x \in Nodes : \A y \in A : Disjoint(x, y) } } :
                   A \in NodeSets(k - 1) }

\* cache and multiproof over disjoint parts of the region, gaps allowed
InitDisjoint ==
    \E c \in GapCover(TreeDepth, 0) :
        InitState(RichMem, PagesFor(RichMem, c.cached), HashesFor(RichMem, c.nodes))

\* any cached leaves with a few multiproof entries, which may repeat cached data
InitOverlap ==
    \E C \in SUBSET Leaves, A \in NodeSets(MaxEntries) :
        InitState(RichMem, PagesFor(RichMem, C), HashesFor(RichMem, A))

InitModel == InitDisjoint \/ InitOverlap

SpecModel == InitModel /\ [][Next]_vars

----------------------------------------------------------------------------
(* inputs outside the data model: repeated, misplaced and misordered entries *)

LeftLeaves == 0 .. (LeafCount \div 2 - 1)
RightLeaves == Leaves \ LeftLeaves

\* pages no well-formed cache holds: a second page for address 0, a page at an
\* address that is no multiple of the page size, a page beyond the region
StrayPages ==
    { [address |-> 0, data |-> MaxData + 1],
      [address |-> PageSize \div 2, data |-> MaxData + 1],
      [address |-> RegionSize, data |-> MaxData + 1] }

\* the entries of the nodes over the left half, the entry of the right half, and
\* an entry whose range is the byte range of leaf 0, which no node asks for
LooseEntries ==
    { TrueEntry(RichMem, n) : n \in { x \in Nodes : LeavesOf(x) \cap LeftLeaves # {} } }
    \cup { TrueEntry(RichMem, <<TreeDepth - 1, 1>>) }
    \cup { Entry(0, PageSize - 1, TrueHash(RichMem, 0, 0)) }

SeqsUpTo(S, k) == UNION { [1 .. n -> S] : n \in 0 .. k }

\* the right half cached, any part of the left half cached, possibly one stray
\* page before or after, and any sequence of at most k entries
InitLooseUpTo(k) ==
    \E C \in SUBSET LeftLeaves, hs \in SeqsUpTo(LooseEntries, k) :
        LET ps == PagesFor(RichMem, C \cup RightLeaves) IN
        \E qs \in {ps} \cup { ps \o <<x>> : x \in StrayPages }
                       \cup { <<x>> \o ps : x \in StrayPages } :
            InitState(RichMem, qs, hs)

InitLoose == InitLooseUpTo(MaxEntries)

InitAny == InitLoose \/ InitDisjoint

SpecAny == InitAny /\ [][Next]_vars

\* the inputs termination is examined on: as InitAny, the loose inputs one entry shorter
InitTerm == InitLooseUpTo(MaxEntries - 1) \/ InitDisjoint

\* calculate_root is one synchronous call: once entered every step of it is
\* taken, nothing in it waits
FairAny == InitTerm /\ [][Next]_vars /\ WF_vars(Next)

\* a caller that calls calculate_root again once it has returned
NextReuse == Next \/ CalculateRootAgain

SpecReuse == InitTerm /\ [][NextReuse]_vars

----------------------------------------------------------------------------
(* calculate_root as a function of its inputs *)

RECURSIVE InitAll(_, _, _, _)
\* MerkleProof::init from page_address on
InitAll(ps, hs, address, t) ==
    IF address < RegionSize
    THEN LET b == InitBranch(ps, hs, address)
         IN  InitAll(b.pages, b.hashes, address + PageSize, Append(t, b.slot))
    ELSE [tree |-> t, hashes |-> hs]

RECURSIVE BubbleAll(_, _, _, _, _)
\* MerkleProof::bubble_up from the pair at rd on
BubbleAll(t, hs, rd, wr, es) ==
    IF rd < Len(t)
    THEN LET b == BubblePair(t, hs, rd, wr, es)
         IN  BubbleAll([t EXCEPT ![wr + 1] = b.slot], b.hashes, rd + 2, wr + 1, es)
    ELSE [tree |-> Truncate(t), hashes |-> hs]

RECURSIVE Reduce(_, _)
\* the loop and the match of calculate_root
Reduce(t, hs) ==
    IF Len(t) > 1
    THEN LET u == BubbleAll(t, hs, 0, 0, RegionSize \div Shr1(Len(t)))
         IN  Reduce(u.tree, u.hashes)
    ELSE IF t[1] # None THEN Ok(t[1]) ELSE Err

\* MerkleProof::new(PageCache::new(ps), Multiproof { hashes: hs }).calculate_root()
RunRoot(ps, hs) ==
    LET i == InitAll(PageCache_new(ps), hs, 0, <<>>)
    IN  Reduce(i.tree, i.hashes)

----------------------------------------------------------------------------
(* the vocabulary of the claims, over the inputs of the run *)

Done == pc = "done"

LeafAddrs == { i * PageSize : i \in Leaves }

CachedAddrs == { in_pages[i].address : i \in 1 .. Len(in_pages) }

\* cache pages are unique, page-aligned and within the region
CacheWellFormed ==
    /\ \A i, j \in 1 .. Len(in_pages) :
         i # j => in_pages[i].address # in_pages[j].address
    /\ CachedAddrs \subseteq LeafAddrs

\* every cached page holds the data of the committed memory
CacheTrue ==
    \A i \in 1 .. Len(in_pages) :
        /\ in_pages[i].address \in LeafAddrs
        /\ in_pages[i].data = mem[in_pages[i].address \div PageSize]

\* the leaf addresses inside the inclusive range of an entry
EntryLeafAddrs(e) == { a \in LeafAddrs : e.address_low <= a /\ a <= e.address_high }

IsNodeRange(e) == \E n \in Nodes : NodeRange(n) = <<e.address_low, e.address_high>>

EntryNode(e) == CHOOSE n \in Nodes : NodeRange(n) = <<e.address_low, e.address_high>>

\* entry e is consumed before entry f by a scan that meets both: lower level
\* first, and within a level lower address first
ScansBefore(e, f) ==
    LET se == e.address_high - e.address_low
        sf == f.address_high - f.address_low
    IN  se < sf \/ (se = sf /\ e.address_low < f.address_low)

\* multiproof ranges are node-aligned, do not overlap, and get_next hands them
\* out in scan order (the vector holds them last-first)
ProofWellFormed ==
    /\ \A i \in 1 .. Len(in_hashes) : IsNodeRange(in_hashes[i])
    /\ \A i, j \in 1 .. Len(in_hashes) :
         i # j => EntryLeafAddrs(in_hashes[i]) \cap EntryLeafAddrs(in_hashes[j]) = {}
    /\ \A i, j \in 1 .. Len(in_hashes) :
         i < j => ScansBefore(in_hashes[j], in_hashes[i])

\* every entry carries the hash of its subtree of the committed memory
ProofTrue ==
    \A i \in 1 .. Len(in_hashes) :
        /\ IsNodeRange(in_hashes[i])
        /\ in_hashes[i].hash =
             TrueHash(mem, EntryNode(in_hashes[i])[1], EntryNode(in_hashes[i])[2])

ProofAddrs == UNION { EntryLeafAddrs(in_hashes[i]) : i \in 1 .. Len(in_hashes) }

\* leaf addresses with data from neither source
Uncovered == LeafAddrs \ (CachedAddrs \cup ProofAddrs)

\* the multiproof covers exactly the leaves the cache does not hold
ExactComplement ==
    /\ ProofAddrs \cap CachedAddrs = {}
    /\ Uncovered = {}

RECURSIVE PairUp(_)
\* adjacent pairs hashed, lower address first, until one hash remains
PairUp(level) ==
    IF Len(level) = 1 THEN level[1]
    ELSE PairUp([i \in 1 .. (Len(level) \div 2) |->
                   merge_hashes(level[2 * i - 1], level[2 * i])])

\* the root by hand: every page hashed, then pairs hashed bottom-up
RefRoot(m) == PairUp([i \in 1 .. LeafCount |-> PageHash(TruePage(m, i - 1))])

----------------------------------------------------------------------------
(* claims on Spec *)

\* C1: a cache of any leaves with a multiproof of true subtree hashes that
\* exactly partitions the uncached leaves into node-aligned ranges, at any mix
\* of levels and in scan order, yields Ok with the root of the whole memory.
C1_MixedCoverage ==
    (Done /\ CacheWellFormed /\ CacheTrue /\ ProofWellFormed /\ ProofTrue
          /\ ExactComplement)
    => result = Ok(RefRoot(mem))

\* C1 witness: a finished run on a partial cache with a single-leaf entry and
\* an entry of a higher level
C1_Witness ==
    /\ Done /\ CacheWellFormed /\ CacheTrue /\ ProofWellFormed /\ ProofTrue
    /\ ExactComplement
    /\ in_pages # <<>>
    /\ \E i, j \in 1 .. Len(in_hashes) :
         /\ in_hashes[i].address_high = in_hashes[i].address_low
         /\ in_hashes[j].address_high > in_hashes[j].address_low
    /\ result.kind = "Ok"

\* C4: with a page for every leaf, handed over in any order, and an empty
\* multiproof, the result is Ok with the root hashed by hand.
C4_AllCache ==
    (Done /\ CacheWellFormed /\ CacheTrue /\ CachedAddrs = LeafAddrs
          /\ in_hashes = <<>>)
    => result = Ok(RefRoot(mem))

\* C4 witness: a finished all-cache run whose pages were not handed over by
\* ascending address
C4_Witness ==
    /\ Done /\ CacheWellFormed /\ CacheTrue /\ CachedAddrs = LeafAddrs
    /\ in_hashes = <<>>
    /\ \E i \in 1 .. (Len(in_pages) - 1) : in_pages[i].address > in_pages[i + 1].address
    /\ result.kind = "Ok"

\* every entry is a single-leaf entry (addr, addr)
SingleLeafEntries ==
    \A i \in 1 .. Len(in_hashes) :
        /\ in_hashes[i].address_low = in_hashes[i].address_high
        /\ in_hashes[i].address_low \in LeafAddrs

\* C5: however the leaves are split between cache pages and single-leaf
\* multiproof entries (consumed by ascending address), the run returns what
\* the run with every leaf cached and no multiproof returns.
C5_Interchangeable ==
    (Done /\ CacheWellFormed /\ CacheTrue /\ SingleLeafEntries /\ ProofWellFormed
          /\ ProofTrue /\ ExactComplement)
    => /\ result = RunRoot(PagesFor(mem, Leaves), <<>>)
       /\ result.kind = "Ok"

\* C5 witness: a finished run with an empty cache and every leaf in the multiproof
C5_Witness ==
    /\ Done /\ SingleLeafEntries /\ ProofWellFormed /\ ProofTrue /\ ExactComplement
    /\ in_pages = <<>>
    /\ Len(in_hashes) = LeafCount
    /\ result.kind = "Ok"

----------------------------------------------------------------------------
(* claims on SpecAny, and on FairAny for termination *)

\* C2: if some leaf address is neither a cached page address nor inside the
\* range of a multiproof entry, calculate_root returns Err, never Ok, whatever
\* the cache and the multiproof hold and in whatever order.
C2_GapDetection == (Done /\ Uncovered # {}) => result = Err

\* C2 witness: a finished run that consumed its whole multiproof, one leaf
\* without data, ending in Err
C2_Witness ==
    /\ Done
    /\ Cardinality(Uncovered) = 1
    /\ in_hashes # <<>>
    /\ hashes = <<>>
    /\ result = Err

\* C7: no step panics: every get_next comes right after a has_next of the same
\* source that returned true and finds an element, and the indices r, r + 1 and
\* w that bubble_up is about to use lie inside the level.
C7_NoPanic ==
    /\ pc # "panic"
    /\ \A i \in 1 .. Len(ops) :
         ops[i].op = "get_next" =>
            /\ ops[i].ok
            /\ i > 1
            /\ ops[i - 1].op = "has_next"
            /\ ops[i - 1].src = ops[i].src
            /\ ops[i - 1].ok
    /\ pc = "bubble" => (r >= 0 /\ r + 1 < Len(tree) /\ w >= 0 /\ w < Len(tree))

\* C7 witness: bubble_up at the last pair of the leaf level, right after a
\* step that took an entry from the multiproof
C7_Witness ==
    /\ pc = "bubble"
    /\ levels = 0
    /\ r + 2 = Len(tree)
    /\ Len(ops) = 2
    /\ ops[2] = Op("multiproof", "get_next", TRUE, ops[1].low, ops[1].high)

C8_Shape ==
    /\ pc # "panic"
    /\ levels <= TreeDepth
    /\ pc = "loop" => Len(tree) * Pow2(levels) = LeafCount
    /\ Done => /\ levels = TreeDepth
               /\ Len(tree) = 1
               /\ result = IF tree[1] # None THEN Ok(tree[1]) ELSE Err

\* C8: calculate_root terminates on every input; the leaf build leaves
\* LeafCount slots, every bubble_up halves the level, the loop ends after
\* log2(LeafCount) of them with one slot, and the result is Ok of that slot if
\* it is Known and Err if not.
C8_Termination == <>Done /\ []C8_Shape

\* C8 witness: a run that ended after TreeDepth reductions with an Unknown root
C8_Witness == Done /\ levels = TreeDepth /\ Len(tree) = 1 /\ result = Err

----------------------------------------------------------------------------
(* claims on SpecModel *)

\* the invariants of the data model, as the claims list them
DataModel == CacheWellFormed /\ ProofWellFormed

\* no multiproof entry covers a leaf the cache holds
NoRepeat == ProofAddrs \cap CachedAddrs = {}

\* C3 as stated: within the data model, Err exactly when some leaf is covered
\* by neither source.
C3_Original == (Done /\ DataModel) => (result = Err <=> Uncovered # {})

\* C3 amended: within the data model and with no multiproof entry covering a
\* cached leaf, Err exactly when some leaf is covered by neither source, and Ok
\* whenever every leaf is covered.
C3_ErrIffGap ==
    (Done /\ DataModel /\ NoRepeat)
    => /\ result = Err <=> Uncovered # {}
       /\ result.kind = "Ok" <=> Uncovered = {}

\* C3 witness: a finished run within these bounds with data from both sources
\* whose coverage is complete, ending Ok
C3_Witness ==
    /\ Done /\ DataModel /\ NoRepeat
    /\ in_pages # <<>>
    /\ Len(in_hashes) > 1
    /\ Uncovered = {}
    /\ result.kind = "Ok"

\* C6 as stated: within the data model both inputs are empty once
\* calculate_root has returned.
C6_Original == (Done /\ DataModel) => (pages = <<>> /\ hashes = <<>>)

\* C6 amended: within the data model and with no multiproof entry covering a
\* cached leaf, both inputs are empty once calculate_root has returned, Ok or
\* Err.
C6_Drained == (Done /\ DataModel /\ NoRepeat) => (pages = <<>> /\ hashes = <<>>)

\* C6 witness: a run that ended in Err on a cache and a multiproof of several
\* entries, both emptied
C6_Witness ==
    /\ Done /\ DataModel /\ NoRepeat
    /\ in_pages # <<>>
    /\ Len(in_hashes) > 1
    /\ result = Err
    /\ pages = <<>>
    /\ hashes = <<>>

----------------------------------------------------------------------------
(* PageCache and Multiproof on their own, under a caller that asks and takes *)

MaxPages == 3

\* the has_next call before a get_next, if it was the call just made
LastHas == IF ops # <<>> /\ ops[Len(ops)].op = "has_next"
           THEN <<ops[Len(ops)]>> ELSE <<>>

\* PageCache::has_next(address) called on the cache
CacheHasNext ==
    /\ pc = "ready"
    /\ \E address \in LeafAddrs : ops' = <<CacheHas(pages, address)>>
    /\ UNCHANGED <<mem, in_pages, in_hashes, pages, hashes, tree, pc, page_address,
                   entry_size, r, w, result, levels, got>>

\* PageCache::get_next() called on the cache, until it has signalled empty
CacheGetNext ==
    /\ pc = "ready"
    /\ Len(got) <= Len(in_pages)
    /\ pages' = PageCache_get_next(pages).rest
    /\ got' = Append(got, PageCache_get_next(pages).ret)
    /\ ops' = LastHas \o <<CacheGet(pages)>>
    /\ UNCHANGED <<mem, in_pages, in_hashes, hashes, tree, pc, page_address,
                   entry_size, r, w, result, levels>>

\* the ranges a caller may ask the multiproof for
ProbeRanges == { <<e.address_low, e.address_high>> : e \in LooseEntries }

\* Multiproof::has_next(low, high) called on the multiproof
ProofHasNext ==
    /\ pc = "ready"
    /\ \E rg \in ProbeRanges : ops' = <<ProofHas(hashes, rg[1], rg[2])>>
    /\ UNCHANGED <<mem, in_pages, in_hashes, pages, hashes, tree, pc, page_address,
                   entry_size, r, w, result, levels, got>>

\* Multiproof::get_next() called on the multiproof, until it has signalled empty
ProofGetNext ==
    /\ pc = "ready"
    /\ Len(got) <= Len(in_hashes)
    /\ hashes' = Multiproof_get_next(hashes).rest
    /\ got' = Append(got, Multiproof_get_next(hashes).ret)
    /\ ops' = LastHas \o <<ProofGet(hashes)>>
    /\ UNCHANGED <<mem, in_pages, in_hashes, pages, tree, pc, page_address,
                   entry_size, r, w, result, levels>>

\* sequences of at most k pages of the rich memory, no address twice, any order
PageSeqs(k) ==
    { ps \in SeqsUpTo({ TruePage(RichMem, i) : i \in Leaves }, k) :
        \A i, j \in 1 .. Len(ps) : i # j => ps[i].address # ps[j].address }

InitCache == \E ps \in PageSeqs(MaxPages) : InitState(RichMem, ps, <<>>)

NextCache == New \/ CacheHasNext \/ CacheGetNext

SpecCache == InitCache /\ [][NextCache]_vars

InitProof == \E hs \in SeqsUpTo(LooseEntries, MaxEntries) : InitState(RichMem, <<>>, hs)

NextProof == New \/ ProofHasNext \/ ProofGetNext

SpecProof == InitProof /\ [][NextProof]_vars

\* the elements get_next has handed out so far
Taken == { i \in 1 .. Len(got) : got[i] # <<>> }

\* C9 vocabulary: the page of rank i by ascending address among the pages given
AscPage(i) ==
    CHOOSE p \in { in_pages[k] : k \in 1 .. Len(in_pages) } :
        Cardinality({ a \in CachedAddrs : a < p.address }) = i - 1

RemainingAddrs == CachedAddrs \ { got[i][1].address : i \in Taken }

\* C9: whatever the order the pages of unique addresses were given in,
\* get_next hands them out by strictly ascending address and then signals
\* empty; has_next(a) is true iff pages remain and the lowest remaining address
\* is a; and the cache holds exactly the pages not yet handed out (has_next
\* removes nothing).
C9_CacheOrder ==
    pc = "ready" =>
      /\ \A i \in 1 .. Len(got) :
           got[i] = IF i <= Len(in_pages) THEN <<AscPage(i)>> ELSE <<>>
      /\ \A i, j \in Taken : i < j => got[i][1].address < got[j][1].address
      /\ (Len(ops) = 1 /\ ops[1].op = "has_next") =>
           (ops[1].ok <=> /\ RemainingAddrs # {}
                          /\ \A a \in RemainingAddrs : ops[1].low <= a
                          /\ ops[1].low \in RemainingAddrs)
      /\ Len(pages) = Cardinality(RemainingAddrs)
      /\ { pages[i].address : i \in 1 .. Len(pages) } = RemainingAddrs

\* C9 witness: MaxPages pages given in neither ascending nor descending order,
\* all handed out, and the empty signal given
C9_Witness ==
    /\ pc = "ready"
    /\ Len(in_pages) = MaxPages
    /\ \E i, j \in 1 .. (Len(in_pages) - 1) :
         /\ in_pages[i].address > in_pages[i + 1].address
         /\ in_pages[j].address < in_pages[j + 1].address
    /\ Len(got) = Len(in_pages) + 1
    /\ got[Len(got)] = <<>>

\* index in in_hashes of the next-available entry: the last one not handed out
NextAvailable == Len(in_hashes) - Cardinality(Taken)

\* C10: has_next(low, high) is true iff entries remain and the range of the
\* next-available entry, the last of the vector, is exactly (low, high);
\* get_next removes and returns exactly that entry, or signals empty; the
\* multiproof holds exactly the entries not yet handed out (has_next removes
\* nothing); a get_next right after a true has_next(low, high) returns the
\* entry of range (low, high).
C10_PeekTake ==
    pc = "ready" =>
      /\ hashes = SubSeq(in_hashes, 1, NextAvailable)
      /\ \A i \in 1 .. Len(got) :
           got[i] = IF i <= Len(in_hashes)
                    THEN <<in_hashes[Len(in_hashes) + 1 - i]>> ELSE <<>>
      /\ (Len(ops) = 1 /\ ops[1].op = "has_next") =>
           (ops[1].ok <=> /\ NextAvailable > 0
                          /\ in_hashes[NextAvailable].address_low = ops[1].low
                          /\ in_hashes[NextAvailable].address_high = ops[1].high)
      /\ (Len(ops) = 2 /\ ops[1].ok) =>
           /\ ops[2].ok
           /\ ops[2].low = ops[1].low
           /\ ops[2].high = ops[1].high
           /\ got[Len(got)] # <<>>
           /\ got[Len(got)][1].address_low = ops[1].low
           /\ got[Len(got)][1].address_high = ops[1].high

\* C10 witness: a get_next right after a true has_next, on a multiproof of two
\* entries of the same lower bound and different ranges
C10_Witness ==
    /\ pc = "ready"
    /\ Len(in_hashes) > 1
    /\ in_hashes[1].address_low = in_hashes[2].address_low
    /\ in_hashes[1].address_high # in_hashes[2].address_high
    /\ Len(ops) = 2
    /\ ops[1].ok
    /\ ops[2].ok

----------------------------------------------------------------------------
(* claims on the single steps of the scan, on SpecAny *)

\* the element get_next would hand out: the last of the vector
Last(s) == s[Len(s)]

\* the cache's next page has the address init is at
CacheHit == pages # <<>> /\ Last(pages).address = page_address

\* the multiproof's next entry has exactly the range (addr, addr)
LeafHit ==
    /\ hashes # <<>>
    /\ Last(hashes).address_low = page_address
    /\ Last(hashes).address_high = page_address

\* one step of the leaf build, as the claim gives it
LeafBuildStep ==
    /\ page_address = Len(tree) * PageSize
    /\ page_address \in LeafAddrs
    /\ page_address' = page_address + PageSize
    /\ pc' = IF page_address' < RegionSize THEN "init" ELSE "loop"
    /\ Len(tree') = Len(tree) + 1
    /\ SubSeq(tree', 1, Len(tree)) = tree
    /\ CacheHit =>
         /\ Last(tree') = <<0, Last(pages).data>>
         /\ pages' = SubSeq(pages, 1, Len(pages) - 1)
         /\ hashes' = hashes
    /\ (~CacheHit /\ LeafHit) =>
         /\ Last(tree') = Last(hashes).hash
         /\ hashes' = SubSeq(hashes, 1, Len(hashes) - 1)
         /\ pages' = pages
    /\ (~CacheHit /\ ~LeafHit) =>
         /\ Last(tree') = None
         /\ pages' = pages
         /\ hashes' = hashes
    /\ (Len(pages) - Len(pages')) + (Len(hashes) - Len(hashes')) <= 1

\* C11: the leaf build visits the page-aligned addresses of the region once,
\* ascending, and appends one slot per address: the hash of the cache's next
\* page if that page has the address (the multiproof then stays as it is), else
\* the hash of the multiproof's next entry if its range is exactly (addr, addr),
\* else Unknown; a step takes at most one element, from one source, and the
\* level it leaves has LeafCount slots.
C11_LeafBuild ==
    /\ [][pc = "init" => LeafBuildStep]_vars
    /\ [](pc = "init" => Len(tree) < LeafCount)
    /\ []((pc = "loop" /\ levels = 0) => Len(tree) = LeafCount)

\* C11 witness: the leaf build just took a page from the cache at an address
\* the multiproof's next entry is for as well, and left that entry in place
C11_Witness ==
    /\ pc = "init"
    /\ Len(ops) = 2
    /\ ops[1] = Op("cache", "has_next", TRUE, page_address - PageSize,
                   page_address - PageSize)
    /\ ops[2].src = "cache" /\ ops[2].op = "get_next"
    /\ hashes # <<>>
    /\ hashes = in_hashes
    /\ Last(hashes).address_low = page_address - PageSize
    /\ Last(hashes).address_high = page_address - PageSize

\* one step of a reduction on a pair of two Known children
MergeStep ==
    LET left == tree[r + 1]
        right == tree[r + 2]
    IN  /\ tree'[w + 1] = <<1>> \o left \o right
        /\ left # right => tree'[w + 1] # <<1>> \o right \o left
        /\ hashes' = hashes
        /\ ops' = <<>>

\* C12: in a reduction step on a pair whose two children are Known the parent
\* is the hash of the even-index child followed by the odd-index child, which
\* differs from the hash in the swapped order when the children differ, and
\* the multiproof is neither asked nor changed.
C12_MergeOrder ==
    [][(pc = "bubble" /\ tree[r + 1] # None /\ tree[r + 2] # None) => MergeStep]_vars

\* C12 witness: a reduction step has just merged two different Known children,
\* still in the level, with entries waiting in the multiproof
C12_Witness ==
    /\ pc = "bubble"
    /\ w >= 2
    /\ ops = <<>>
    /\ hashes # <<>>
    /\ tree[2 * w - 1] # None
    /\ tree[2 * w] # None
    /\ tree[2 * w - 1] # tree[2 * w]
    /\ tree[w] = <<1>> \o tree[2 * w - 1] \o tree[2 * w]

\* the pages taken so far: those handed in that the cache no longer holds
ConsumedPages ==
    { in_pages[k] : k \in 1 .. Len(in_pages) } \ { pages[k] : k \in 1 .. Len(pages) }

\* the entries taken so far
ConsumedEntries == { in_hashes[k] : k \in (Len(hashes) + 1) .. Len(in_hashes) }

\* exactly one of the alternatives holds
ExactlyOne(alts) == Cardinality({ k \in 1 .. Len(alts) : alts[k] }) = 1

\* a step writes slot as the hash of the cache's next page, which it takes
FromPage(slot, address) ==
    /\ pages # <<>>
    /\ Last(pages).address = address
    /\ slot = <<0, Last(pages).data>>
    /\ pages' = SubSeq(pages, 1, Len(pages) - 1)
    /\ hashes' = hashes

\* a step writes slot as the hash of the multiproof's next entry, of range
\* (low, high) exactly, which it takes
FromEntry(slot, low, high) ==
    /\ hashes # <<>>
    /\ Last(hashes) = Entry(low, high, slot)
    /\ slot # None
    /\ hashes' = SubSeq(hashes, 1, Len(hashes) - 1)
    /\ pages' = pages

\* a step writes slot as the hash of two Known children and takes nothing
FromChildren(slot, left, right) ==
    /\ left # None
    /\ right # None
    /\ slot = <<1>> \o left \o right
    /\ pages' = pages
    /\ hashes' = hashes

\* a step writes Unknown and takes nothing
FromNothing(slot) == slot = None /\ pages' = pages /\ hashes' = hashes

\* every write of a slot, with a leaf entry of range (a, a + leafSpan)
StepProvenance(leafSpan) ==
    /\ pc \in {"ready", "loop"} => (pages' = pages /\ hashes' = hashes)
    /\ pc = "init" =>
         LET a == Len(tree) * PageSize
             slot == Last(tree')
         IN  ExactlyOne(<<FromPage(slot, a), FromEntry(slot, a, a + leafSpan),
                          FromNothing(slot)>>)
    /\ pc = "bubble" =>
         LET S == NodeSpan(levels + 1)
             slot == tree'[w + 1]
             left == tree[r + 1]
             right == tree[r + 2]
         IN  /\ ExactlyOne(<<FromChildren(slot, left, right),
                             FromEntry(slot, w * S, w * S + S - 1),
                             FromNothing(slot)>>)
             /\ ((left = None \/ right = None) /\ slot # None)
                  => FromEntry(slot, w * S, w * S + S - 1)

\* leaf slot j (from 1) while the leaf level still holds it, given the pages
\* cp and the entries ce taken so far
LeafProvenance(j, leafSpan, cp, ce) ==
    LET a == (j - 1) * PageSize IN
    \/ tree[j] = None
    \/ \E p \in cp : p.address = a /\ tree[j] = <<0, p.data>>
    \/ Entry(a, a + leafSpan, tree[j]) \in ce

\* parent slot i (from 1) of the level a reduction is writing, while its two
\* children are still in the vector
ParentProvenance(i, ce) ==
    LET S == NodeSpan(levels + 1)
        left == tree[2 * i - 1]
        right == tree[2 * i]
    IN  IF left # None /\ right # None
        THEN tree[i] = <<1>> \o left \o right
        ELSE \/ tree[i] = None
             \/ Entry((i - 1) * S, (i - 1) * S + S - 1, tree[i]) \in ce

\* what a state shows of where its slots come from, and that what was taken
\* from either source was taken from its end, one element at a time
StateProvenance(leafSpan) ==
    pc \in {"init", "loop", "bubble", "done"} =>
        LET cp == ConsumedPages
            ce == ConsumedEntries
        IN  /\ hashes = SubSeq(in_hashes, 1, Len(hashes))
            /\ Len(pages) + Cardinality(cp) = Len(in_pages)
            /\ (pc = "init" \/ (pc = "loop" /\ levels = 0)) =>
                 \A j \in 1 .. Len(tree) : LeafProvenance(j, leafSpan, cp, ce)
            /\ (pc = "bubble" /\ levels = 0) =>
                 \A j \in (IF w = 0 THEN 1 ELSE 2 * w + 1) .. Len(tree) :
                     LeafProvenance(j, leafSpan, cp, ce)
            /\ pc = "bubble" =>
                 \A i \in 1 .. w : 2 * i - 1 > w => ParentProvenance(i, ce)

\* C13 as stated: every slot is the hash of its two Known children, or the hash
\* of a consumed entry of range [w*S, w*S + S - 1] with S the span of the
\* level, the leaf level included, or at a leaf the hash of the consumed page
\* at w*S, or Unknown.
C13_Original ==
    /\ [][StepProvenance(PageSize - 1)]_vars
    /\ []StateProvenance(PageSize - 1)

\* C13 amended: at every write and in every state, a slot above the leaves is
\* the hash of its two Known children, or the hash of a consumed entry of range
\* exactly [w*S, w*S + S - 1], or Unknown, and with an Unknown child it is Known
\* only through such an entry; a leaf slot is the hash of the consumed page at
\* w*S, or the hash of a consumed entry of range exactly (w*S, w*S), or
\* Unknown; pages and entries are taken one at a time from the end of their
\* vector, so none is consumed twice.
C13_Provenance ==
    /\ [][StepProvenance(0)]_vars
    /\ []StateProvenance(0)

\* C13 witness: a reduction has just written a parent from a multiproof entry
\* over one Known and one Unknown child, both still in the vector, after the
\* leaf build took a single-leaf entry
C13_Witness ==
    /\ pc = "bubble"
    /\ w >= 2
    /\ Len(ops) = 2
    /\ ops[2] = Op("multiproof", "get_next", TRUE, ops[1].low, ops[1].high)
    /\ tree[w] # None
    /\ (tree[2 * w - 1] = None) # (tree[2 * w] = None)
    /\ \E e \in ConsumedEntries : e.address_low = e.address_high

\* the multiproof's next entry has exactly the range (low, high)
NextIs(low, high) ==
    /\ hashes # <<>>
    /\ Last(hashes).address_low = low
    /\ Last(hashes).address_high = high

\* a step that asks the multiproof while its next entry is for another range:
\* the answer is false, the entry stays, the slot written is Unknown
MismatchStep ==
    /\ (pc = "init" /\ ~CacheHit /\ hashes # <<>> /\ ~LeafHit) =>
         /\ hashes' = hashes
         /\ Last(tree') = None
         /\ Len(ops') = 2
         /\ ops'[2] = Op("multiproof", "has_next", FALSE, page_address, page_address)
    /\ (pc = "bubble" /\ (tree[r + 1] = None \/ tree[r + 2] = None) /\ hashes # <<>>
          /\ ~NextIs(w * NodeSpan(levels + 1),
                     w * NodeSpan(levels + 1) + NodeSpan(levels + 1) - 1)) =>
         /\ hashes' = hashes
         /\ tree'[w + 1] = None
         /\ ops' = <<Op("multiproof", "has_next", FALSE, w * NodeSpan(levels + 1),
                        w * NodeSpan(levels + 1) + NodeSpan(levels + 1) - 1)>>

\* the place in the scan of the node the next step visits
ScanPos ==
    CASE pc = "init"   -> ScanKey(<<0, page_address \div PageSize>>)
      [] pc = "bubble" -> ScanKey(<<levels + 1, w>>)
      [] pc \in {"loop", "done"} -> ScanKey(<<levels + 1, 0>>)
      [] OTHER -> 0

\* the scan is past the node of the multiproof's next entry
Passed ==
    /\ hashes # <<>>
    /\ IsNodeRange(Last(hashes))
    /\ ScanKey(EntryNode(Last(hashes))) < ScanPos

\* C14: a step that asks the multiproof while its next entry has another range
\* than the one scanned gets the answer false, leaves the entry in place and
\* writes no multiproof data; and once the scan is past the node of the next
\* entry it stays past it and the multiproof does not change any more.
C14_WrongPosition ==
    /\ [][MismatchStep]_vars
    /\ [][Passed => (Passed' /\ hashes' = hashes)]_vars

\* C14 witness: a reduction step has just been told that the next entry does
\* not match, with the scan past that entry's node and a second entry behind it
C14_Witness ==
    /\ pc = "bubble"
    /\ Len(ops) = 1
    /\ ops[1].src = "multiproof" /\ ~ops[1].ok
    /\ Passed
    /\ Len(hashes) >= 2
    /\ hashes = in_hashes

\* values a Known child could have had instead: the hash of a page of any
\* data, and a hash no page and no merge yields
AltHashes == { <<0, d>> : d \in 1 .. (MaxData + 1) } \cup { <<2, 0>> }

\* a reduction step on a pair with exactly one Known child while the
\* multiproof's next entry is for the parent: the parent is the entry's hash,
\* the entry is taken, and the step with any other value in place of the Known
\* child writes the same parent, takes the same entry and makes the same calls
OverrideStep ==
    LET S == NodeSpan(levels + 1)
        left == tree[r + 1]
        right == tree[r + 2]
        known == IF left # None THEN r + 1 ELSE r + 2
    IN  (pc = "bubble" /\ ((left = None) # (right = None))
           /\ NextIs(w * S, w * S + S - 1)) =>
          /\ tree'[w + 1] = Last(hashes).hash
          /\ hashes' = SubSeq(hashes, 1, Len(hashes) - 1)
          /\ pc' # "panic"
          /\ \A v \in AltHashes :
               LET b == BubblePair([tree EXCEPT ![known] = v], hashes, r, w,
                                   entry_size)
               IN  /\ ~b.panic
                   /\ b.slot = tree'[w + 1]
                   /\ b.hashes = hashes'
                   /\ b.ops = ops'

\* C15: in a reduction step on a pair with exactly one Known child, when the
\* multiproof's next entry has exactly the parent's range the parent is that
\* entry's hash as it stands; the value of the Known child does not enter: the
\* same step with any other value for that child gives the same parent and the
\* same calls, and none of them is refused.
C15_Override == [][OverrideStep]_vars

\* C15 witness: at the first reduction a parent has just been taken from the
\* multiproof over an Unknown child and the hash of a page taken from the
\* cache, both still in the vector, and the parent is not Unknown
C15_Witness ==
    /\ pc = "bubble"
    /\ levels = 0
    /\ w >= 2
    /\ Len(ops) = 2
    /\ ops[1] = Op("multiproof", "has_next", TRUE, (w - 1) * NodeSpan(1),
                   (w - 1) * NodeSpan(1) + NodeSpan(1) - 1)
    /\ ops[2].op = "get_next"
    /\ tree[w] = in_hashes[Len(hashes) + 1].hash
    /\ tree[w] # None
    /\ \E k \in {2 * w - 1, 2 * w}, p \in ConsumedPages :
         /\ tree[k] = <<0, p.data>>
         /\ p.address = (k - 1) * PageSize
         /\ tree[4 * w - 1 - k] = None

----------------------------------------------------------------------------
(* a second call on the same instance, on SpecReuse *)

\* calculate_root has returned once and has been entered again
SecondCall == result # NoResult /\ pc # "done"

\* C16: a second calculate_root on the same instance finds the root slot of
\* the first call still in the tree and pushes its leaf slots after it, so the
\* level it reduces has LeafCount + 1 slots, an odd number; its first
\* bubble_up then reads index r + 1 outside the vector at its last pair, and
\* the call ends there and never returns.
C16_SingleUse ==
    /\ pc = "done" => Len(tree) = 1
    /\ SecondCall =>
         /\ pc \in {"init", "loop", "bubble", "panic"}
         /\ levels = TreeDepth
         /\ pc = "init" => Len(tree) = 1 + page_address \div PageSize
         /\ (pc \in {"init", "loop"} \/ (pc = "bubble" /\ w = 0)) =>
              tree[1] = result.hash
         /\ pc \in {"loop", "bubble", "panic"} =>
              /\ Len(tree) = LeafCount + 1
              /\ Len(tree) % 2 = 1
         /\ pc = "bubble" => r = 2 * w /\ r + 1 <= Len(tree)
    /\ pc = "panic" =>
         /\ SecondCall
         /\ r + 1 = Len(tree)
         /\ r = LeafCount

\* C16 witness: the second call has stopped at the read of index r + 1, one
\* past the last slot, after its leaf build took an entry the first call left
C16_Witness ==
    /\ pc = "panic"
    /\ result # NoResult
    /\ r + 1 = Len(tree)
    /\ Len(tree) = LeafCount + 1
    /\ \E j \in 2 .. Len(tree) : tree[j] # None

====
